---------------------------- MODULE Spec2Model ----------------------------
(***************************************************************************)
(* ScholarScan: the review request state machine of the App component and  *)
(* the analyzeDocument service.                                            *)
(*                                                                         *)
(* Strings the code inspects (trim, includes, split) are tuples of tokens; *)
(* a nullable value is the empty tuple (null) or a one-element tuple.      *)
(***************************************************************************)
EXTENDS Integers, Sequences, FiniteSets, TLC

VARIABLES category, critiqueLevel, selectedCriteria, customCriteria,
          textInput, file, reviewState, inFlight, reads, lastAction

vars == <<category, critiqueLevel, selectedCriteria, customCriteria,
          textInput, file, reviewState, inFlight, reads, lastAction>>

config == <<category, critiqueLevel, selectedCriteria, customCriteria, textInput>>

-----------------------------------------------------------------------------
(* Bounds of the model *)

MaxInFlight == 2
MaxReads == 1

-----------------------------------------------------------------------------
(* Values *)

NULL == <<>>
Some(v) == <<v>>

MAX_FILE_SIZE == 4194304
MAX_WORD_COUNT == 200

UNDERGRADUATE == "Undergraduate Essay"
JOURNAL == "Journal Article"
ReviewCategory == {UNDERGRADUATE, JOURNAL}
CritiqueLevel == {"Supportive", "Standard", "Ruthless"}

AVAILABLE_CRITERIA ==
  <<"Clarity", "Argument Structure", "Originality", "Evidence Use",
    "Grammar & Style", "Referencing", "Critical Thinking",
    "Adherence to Academic Conventions">>

InitialCustomCriteria ==
  << [id |-> "1", name |-> <<>>, keywords |-> <<>>],
     [id |-> "2", name |-> <<>>, keywords |-> <<>>] >>

IdleState == [isLoading |-> FALSE, error |-> NULL, feedback |-> NULL]

(* The error strings of the program, each a one-token message. *)
ERR_SIZE == <<"File size exceeds 4MB limit. Please try a smaller file.">>
ERR_TYPE == <<"Only PDF and DOCX files are supported.">>
ERR_READ == <<"Failed to read file.">>
ERR_CONTENT == <<"Please upload a document or paste text to review.">>
ERR_CRITERIA == <<"Please select at least one evaluation criterion or add a custom one.">>
ERR_NO_PARTS == <<"Please provide text or upload a document to review.">>
ERR_NO_RESPONSE == <<"No response generated from the model.">>
ERR_UNEXPECTED == <<"An unexpected error occurred during analysis.">>
ERR_CONNECTION == <<"Connection error. The file may be too large or the format is not supported. Please try a smaller PDF (under 4MB) or plain text file.">>

-----------------------------------------------------------------------------
(* String helpers *)

IsSpace(c) == c \in {" ", "\t", "\n"}

RECURSIVE TrimStart(_)
TrimStart(s) ==
  IF s = <<>> THEN s
  ELSE IF IsSpace(Head(s)) THEN TrimStart(Tail(s)) ELSE s

RECURSIVE TrimEnd(_)
TrimEnd(s) ==
  IF s = <<>> THEN s
  ELSE IF IsSpace(s[Len(s)]) THEN TrimEnd(SubSeq(s, 1, Len(s) - 1)) ELSE s

Trim(s) == TrimEnd(TrimStart(s))

Includes(s, token) == \E i \in DOMAIN s : s[i] = token

Contains(seq, x) == \E i \in DOMAIN seq : seq[i] = x

Without(seq, x) == SelectSeq(seq, LAMBDA c : c # x)

(* countWords: the number of maximal runs of non-space characters. *)
countWords(str) ==
  LET trimmed == Trim(str)
  IN  IF trimmed = <<>> THEN 0
      ELSE Cardinality({ i \in DOMAIN trimmed :
                           /\ ~IsSpace(trimmed[i])
                           /\ (i = 1 \/ IsSpace(trimmed[i - 1])) })


-----------------------------------------------------------------------------
(* services/geminiService.ts: analyzeDocument *)

(* Variant: the text part is pushed before the inline-data part. *)
Parts_TextFirst(textContext, fileData) ==
  (IF textContext # <<>> THEN << [text |-> textContext] >> ELSE <<>>)
  \o (IF fileData # NULL
        THEN << [inlineData |-> [mimeType |-> fileData[1].mimeType, data |-> fileData[1].data]] >>
        ELSE <<>>)

(* The ordered content parts: the inline-data part, then the text part. *)
Parts(textContext, fileData) ==
  (IF fileData # NULL
     THEN << [inlineData |-> [mimeType |-> fileData[1].mimeType, data |-> fileData[1].data]] >>
     ELSE <<>>)
  \o (IF textContext # <<>> THEN << [text |-> textContext] >> ELSE <<>>)

(* What generateContent can do: reject with an Error carrying a message,   *)
(* reject with undefined, or resolve with a response whose text is a token *)
(* tuple (the empty tuple for a missing or empty text).                    *)
ThrownMessages ==
  { <<>>, <<"[503]", "Rpc failed", "due to", "xhr error">>, <<"fetch:", "xhr error">>,
    <<"API key not valid.">> }

FullJson == <<"{", "summary", "overallScore", "reviews", "}">>
NoReviewsJson == <<"{", "summary", "overallScore", "}">>
NullJson == <<"null">>
TruncatedJson == <<"{", "summary">>

ResponseTexts == { <<>>, FullJson, NoReviewsJson, NullJson, TruncatedJson }

Responses ==
  [kind : {"throw"}, message : ThrownMessages]
  \cup { [kind |-> "throwUndefined", message |-> <<>>] }
  \cup [kind : {"text"}, message : ResponseTexts]

SYNTAX_ERROR == <<"Unexpected end of JSON input">>
TYPE_ERROR == <<"Cannot read properties of undefined (reading 'message')">>

(* JSON.parse: null parses to null, a braced list of keys to an object     *)
(* holding those keys, anything else throws a SyntaxError.                 *)
JSONparse(text) ==
  IF text = <<"null">>
    THEN [ok |-> TRUE, value |-> NULL, message |-> <<>>]
  ELSE IF /\ Len(text) >= 2
          /\ text[1] = "{"
          /\ text[Len(text)] = "}"
          /\ \A i \in 2..(Len(text) - 1) : text[i] \notin {"{", "}"}
    THEN [ok |-> TRUE,
          value |-> Some([fields |-> { text[i] : i \in 2..(Len(text) - 1) }]),
          message |-> <<>>]
  ELSE [ok |-> FALSE, value |-> NULL, message |-> SYNTAX_ERROR]

(* Variant: only the "Rpc failed" marker is recognised. *)
ClassifyError_RpcOnly(message) ==
  IF message # <<>> /\ Includes(message, "Rpc failed")
    THEN ERR_CONNECTION
  ELSE IF message # <<>> THEN message
  ELSE ERR_UNEXPECTED

(* The catch block of analyzeDocument: the message of the Error it throws. *)
ClassifyError(message) ==
  IF message # <<>> /\ (Includes(message, "Rpc failed") \/ Includes(message, "xhr error"))
    THEN ERR_CONNECTION
  ELSE IF message # <<>> THEN message
  ELSE ERR_UNEXPECTED

(* The settled promise of analyzeDocument once generateContent answered r. *)
AnalyzeSettles(r) ==
  IF r.kind = "throw"
    THEN [ok |-> FALSE, value |-> NULL, message |-> ClassifyError(r.message)]
  ELSE IF r.kind = "throwUndefined"
    THEN [ok |-> FALSE, value |-> NULL, message |-> TYPE_ERROR]
  ELSE IF r.message = <<>>
    THEN [ok |-> FALSE, value |-> NULL, message |-> ClassifyError(ERR_NO_RESPONSE)]
  ELSE LET parsed == JSONparse(r.message)
       IN  IF parsed.ok THEN parsed
           ELSE [ok |-> FALSE, value |-> NULL, message |-> ClassifyError(parsed.message)]

-----------------------------------------------------------------------------
(* App: rendering conditions *)

(* The input form is rendered when feedback is falsy, the results view     *)
(* (with the Start New Review button) otherwise.                           *)
FormShown == reviewState.feedback = NULL

(* Variant: the Start New Review button is rendered in both views. *)
ResetShown_Always == TRUE

ResetShown == ~FormShown

(* Variant: the button does not receive the loading flag. *)
SubmitEnabled_IgnoresLoading == FormShown

(* Button: disabled = disabled || isLoading. *)
SubmitEnabled == FormShown /\ ~reviewState.isLoading

(* The drop zone that opens the file dialog is rendered when no file is set. *)
DropZoneShown == FormShown /\ file = NULL

ClearFileShown == FormShown /\ file # NULL

-----------------------------------------------------------------------------
(* Inputs *)

ToggleInputs == { AVAILABLE_CRITERIA[1] }
NameInputs == { <<>>, <<" ">>, <<"M">> }
KeywordInputs == { <<>>, <<"k">> }
TextInputs == { <<>>, <<"a">> }

ReportPdf == [name |-> <<"r", ".", "p", "d", "f">>, size |-> 1024, type |-> "application/pdf", content |-> "JVBERi0="]
NotesTxt == [name |-> <<"n", ".", "t", "x", "t">>, size |-> 1024, type |-> "text/plain", content |-> "bm90ZXM="]
BigPdf == [name |-> <<"b", ".", "p", "d", "f">>, size |-> MAX_FILE_SIZE + 1, type |-> "application/pdf", content |-> "JVBERi1="]

FileInputs == { ReportPdf, NotesTxt, BigPdf }

-----------------------------------------------------------------------------
(* App: file handling *)

ToLowerChar(c) ==
  CASE c = "P" -> "p" [] c = "D" -> "d" [] c = "F" -> "f" [] c = "O" -> "o"
    [] c = "C" -> "c" [] c = "X" -> "x" [] c = "T" -> "t" [] OTHER -> c

ToLowerCase(s) == [i \in DOMAIN s |-> ToLowerChar(s[i])]

(* name.split('.').pop(): what follows the last dot, the whole name if none. *)
LastSegment(name) ==
  LET dots == { i \in DOMAIN name : name[i] = "." }
      last == IF dots = {} THEN 0 ELSE CHOOSE i \in dots : \A j \in dots : j <= i
  IN  SubSeq(name, last + 1, Len(name))

MIME_PDF == "application/pdf"
MIME_DOCX == "application/vnd.openxmlformats-officedocument.wordprocessingml.document"

(* Variant: the size comparison is inclusive. *)
ProcessFileResult_SizeInclusive(selectedFile) ==
  LET ext == ToLowerCase(LastSegment(selectedFile.name))
  IN  IF selectedFile.size >= MAX_FILE_SIZE
        THEN [ok |-> FALSE, error |-> ERR_SIZE, mimeType |-> ""]
      ELSE IF ext = <<"p", "d", "f">>
        THEN [ok |-> TRUE, error |-> NULL, mimeType |-> MIME_PDF]
      ELSE IF ext = <<"d", "o", "c", "x">>
        THEN [ok |-> TRUE, error |-> NULL, mimeType |-> MIME_DOCX]
      ELSE [ok |-> FALSE, error |-> ERR_TYPE, mimeType |-> ""]

(* The synchronous part of processFile: an error, or the read it starts. *)
ProcessFileResult(selectedFile) ==
  LET ext == ToLowerCase(LastSegment(selectedFile.name))
  IN  IF selectedFile.size > MAX_FILE_SIZE
        THEN [ok |-> FALSE, error |-> ERR_SIZE, mimeType |-> ""]
      ELSE IF ext = <<"p", "d", "f">>
        THEN [ok |-> TRUE, error |-> NULL, mimeType |-> MIME_PDF]
      ELSE IF ext = <<"d", "o", "c", "x">>
        THEN [ok |-> TRUE, error |-> NULL, mimeType |-> MIME_DOCX]
      ELSE [ok |-> FALSE, error |-> ERR_TYPE, mimeType |-> ""]

RemoveAt(seq, i) == SubSeq(seq, 1, i - 1) \o SubSeq(seq, i + 1, Len(seq))

processFile(selectedFile) ==
  /\ DropZoneShown
  /\ LET res == ProcessFileResult(selectedFile)
     IN  IF res.ok
           THEN /\ Len(reads) < MaxReads
                /\ reads' = Append(reads, [name |-> selectedFile.name,
                                           mimeType |-> res.mimeType,
                                           data |-> selectedFile.content])
                /\ UNCHANGED reviewState
           ELSE /\ reviewState' = [reviewState EXCEPT !.error = Some(res.error)]
                /\ UNCHANGED reads
  /\ lastAction' = "input"
  /\ UNCHANGED <<config, file, inFlight>>

(* reader.onload of a pending read *)
readerOnload(i) ==
  /\ i \in DOMAIN reads
  /\ file' = Some(reads[i])
  /\ reviewState' = [reviewState EXCEPT !.error = NULL]
  /\ reads' = RemoveAt(reads, i)
  /\ lastAction' = "input"
  /\ UNCHANGED <<config, inFlight>>

(* reader.onerror of a pending read *)
readerOnerror(i) ==
  /\ i \in DOMAIN reads
  /\ reviewState' = [reviewState EXCEPT !.error = Some(ERR_READ)]
  /\ reads' = RemoveAt(reads, i)
  /\ lastAction' = "input"
  /\ UNCHANGED <<config, file, inFlight>>

clearFile ==
  /\ ClearFileShown
  /\ file' = NULL
  /\ lastAction' = "input"
  /\ UNCHANGED <<config, reviewState, inFlight, reads>>

-----------------------------------------------------------------------------
(* App: configuration handlers (all rendered inside the input form) *)

setCategory(c) ==
  /\ FormShown
  /\ category' = c
  /\ lastAction' = "input"
  /\ UNCHANGED <<critiqueLevel, selectedCriteria, customCriteria, textInput,
                 file, reviewState, inFlight, reads>>

setCritiqueLevel(level) ==
  /\ FormShown
  /\ critiqueLevel' = level
  /\ lastAction' = "input"
  /\ UNCHANGED <<category, selectedCriteria, customCriteria, textInput,
                 file, reviewState, inFlight, reads>>

(* Variant: a criterion toggled on is inserted at its catalog position. *)
toggleCriterion_CatalogOrder(criterion) ==
  /\ FormShown
  /\ selectedCriteria' = IF Contains(selectedCriteria, criterion)
                           THEN Without(selectedCriteria, criterion)
                           ELSE SelectSeq(AVAILABLE_CRITERIA,
                                  LAMBDA c : c = criterion \/ Contains(selectedCriteria, c))
  /\ lastAction' = "input"
  /\ UNCHANGED <<category, critiqueLevel, customCriteria, textInput,
                 file, reviewState, inFlight, reads>>

toggleCriterion(criterion) ==
  /\ FormShown
  /\ selectedCriteria' = IF Contains(selectedCriteria, criterion)
                           THEN Without(selectedCriteria, criterion)
                           ELSE Append(selectedCriteria, criterion)
  /\ lastAction' = "input"
  /\ UNCHANGED <<category, critiqueLevel, customCriteria, textInput,
                 file, reviewState, inFlight, reads>>

allSelected ==
  /\ Len(AVAILABLE_CRITERIA) > 0
  /\ \A i \in DOMAIN AVAILABLE_CRITERIA : Contains(selectedCriteria, AVAILABLE_CRITERIA[i])

toggleSelectAll ==
  /\ FormShown
  /\ selectedCriteria' = IF allSelected THEN <<>> ELSE AVAILABLE_CRITERIA
  /\ lastAction' = "input"
  /\ UNCHANGED <<category, critiqueLevel, customCriteria, textInput,
                 file, reviewState, inFlight, reads>>

(* The keywords of the first entry with this id, '' when there is none. *)
PrevKeywords(id) ==
  LET hits == { i \in DOMAIN customCriteria : customCriteria[i].id = id }
  IN  IF hits = {} THEN <<>>
      ELSE customCriteria[CHOOSE i \in hits : \A j \in hits : i <= j].keywords

(* Variant: the cap is compared one word too high. *)
handleCustomCriterionChange_CapOffByOne(id, field, value) ==
  /\ FormShown
  /\ IF /\ field = "keywords"
        /\ countWords(value) > MAX_WORD_COUNT + 1
        /\ countWords(value) > countWords(PrevKeywords(id))
       THEN UNCHANGED customCriteria
       ELSE customCriteria' =
              [i \in DOMAIN customCriteria |->
                 IF customCriteria[i].id = id
                   THEN IF field = "name"
                          THEN [customCriteria[i] EXCEPT !.name = value]
                          ELSE [customCriteria[i] EXCEPT !.keywords = value]
                   ELSE customCriteria[i]]
  /\ lastAction' = "input"
  /\ UNCHANGED <<category, critiqueLevel, selectedCriteria, textInput,
                 file, reviewState, inFlight, reads>>

handleCustomCriterionChange(id, field, value) ==
  /\ FormShown
  /\ IF /\ field = "keywords"
        /\ countWords(value) > MAX_WORD_COUNT
        /\ countWords(value) > countWords(PrevKeywords(id))
       THEN UNCHANGED customCriteria
       ELSE customCriteria' =
              [i \in DOMAIN customCriteria |->
                 IF customCriteria[i].id = id
                   THEN IF field = "name"
                          THEN [customCriteria[i] EXCEPT !.name = value]
                          ELSE [customCriteria[i] EXCEPT !.keywords = value]
                   ELSE customCriteria[i]]
  /\ lastAction' = "input"
  /\ UNCHANGED <<category, critiqueLevel, selectedCriteria, textInput,
                 file, reviewState, inFlight, reads>>

setTextInput(value) ==
  /\ FormShown
  /\ textInput' = value
  /\ lastAction' = "input"
  /\ UNCHANGED <<category, critiqueLevel, selectedCriteria, customCriteria,
                 file, reviewState, inFlight, reads>>

-----------------------------------------------------------------------------
(* App: the review request *)

activeCustomCriteria == SelectSeq(customCriteria, LAMBDA c : Trim(c.name) # <<>>)

(* Variant: the content check forgets the attached file. *)
ValidationError_IgnoresFile ==
  IF textInput = <<>> THEN Some(ERR_CONTENT)
  ELSE IF Len(selectedCriteria) = 0 /\ Len(activeCustomCriteria) = 0 THEN Some(ERR_CRITERIA)
  ELSE NULL

(* Variant: the criteria check runs before the content check. *)
ValidationError_CriteriaFirst ==
  IF Len(selectedCriteria) = 0 /\ Len(activeCustomCriteria) = 0 THEN Some(ERR_CRITERIA)
  ELSE IF textInput = <<>> /\ file = NULL THEN Some(ERR_CONTENT)
  ELSE NULL

(* The two checks of handleReview, in order: NULL when both pass. *)
ValidationError ==
  IF textInput = <<>> /\ file = NULL THEN Some(ERR_CONTENT)
  ELSE IF Len(selectedCriteria) = 0 /\ Len(activeCustomCriteria) = 0 THEN Some(ERR_CRITERIA)
  ELSE NULL

(* analyzeDocument: the criteria names listed in the instruction. *)
allCriteriaNames(selected, custom) ==
  selected \o [i \in DOMAIN SelectSeq(custom, LAMBDA c : Trim(c.name) # <<>>) |->
                 SelectSeq(custom, LAMBDA c : Trim(c.name) # <<>>)[i].name]

(* The criteria names of the call handleReview makes in the current state. *)
RequestCriteria == allCriteriaNames(selectedCriteria, activeCustomCriteria)

(* The click on Run Review up to the first await: validation, the Loading  *)
(* state, and the synchronous start of analyzeDocument, which rejects      *)
(* before dispatch when there are no parts and calls generateContent       *)
(* otherwise.                                                              *)
handleReview ==
  /\ SubmitEnabled
  /\ IF ValidationError # NULL
       THEN /\ reviewState' = [reviewState EXCEPT !.error = ValidationError]
            /\ UNCHANGED inFlight
       ELSE IF Len(Parts(textInput, file)) = 0
         THEN /\ reviewState' = [isLoading |-> FALSE, error |-> Some(ERR_NO_PARTS),
                                 feedback |-> NULL]
              /\ UNCHANGED inFlight
         ELSE /\ inFlight < MaxInFlight
              /\ reviewState' = [isLoading |-> TRUE, error |-> NULL, feedback |-> NULL]
              /\ inFlight' = inFlight + 1
  /\ lastAction' = "submit"
  /\ UNCHANGED <<config, file, reads>>

(* Variant: the success branch merges the feedback into the previous state. *)
ReviewStateAfter_MergesFeedback(settled) ==
  IF settled.ok
    THEN [reviewState EXCEPT !.feedback = settled.value]
    ELSE [isLoading |-> FALSE,
          error |-> Some(IF settled.message # <<>> THEN settled.message ELSE ERR_UNEXPECTED),
          feedback |-> NULL]

(* Variant: the catch branch clears the loading flag and drops the error. *)
ReviewStateAfter_SwallowsError(settled) ==
  IF settled.ok
    THEN [isLoading |-> FALSE, error |-> NULL, feedback |-> settled.value]
    ELSE [isLoading |-> FALSE, error |-> NULL, feedback |-> NULL]

(* The rest of handleReview once the awaited promise has settled. *)
ReviewStateAfter(settled) ==
  IF settled.ok
    THEN [isLoading |-> FALSE, error |-> NULL, feedback |-> settled.value]
    ELSE [isLoading |-> FALSE,
          error |-> Some(IF settled.message # <<>> THEN settled.message ELSE ERR_UNEXPECTED),
          feedback |-> NULL]

(* Variant: a failed call is issued again. *)
CallsAfterResponse_RetriesOnFailure(r) ==
  IF AnalyzeSettles(r).ok THEN inFlight - 1 ELSE inFlight

(* One in-flight generateContent call answers r; the call is not repeated. *)
CallsAfterResponse(r) == inFlight - 1

analysisCompletes(r) ==
  /\ inFlight > 0
  /\ reviewState' = ReviewStateAfter(AnalyzeSettles(r))
  /\ inFlight' = CallsAfterResponse(r)
  /\ lastAction' = "response"
  /\ UNCHANGED <<config, file, reads>>

(* Variant: reset leaves the critique level alone. *)
reset_KeepsCritiqueLevel ==
  /\ ResetShown
  /\ reviewState' = [isLoading |-> FALSE, error |-> NULL, feedback |-> NULL]
  /\ textInput' = <<>>
  /\ file' = NULL
  /\ selectedCriteria' = <<>>
  /\ customCriteria' = InitialCustomCriteria
  /\ lastAction' = "reset"
  /\ UNCHANGED <<category, critiqueLevel, inFlight, reads>>

reset ==
  /\ ResetShown
  /\ reviewState' = [isLoading |-> FALSE, error |-> NULL, feedback |-> NULL]
  /\ textInput' = <<>>
  /\ file' = NULL
  /\ selectedCriteria' = <<>>
  /\ critiqueLevel' = "Standard"
  /\ customCriteria' = InitialCustomCriteria
  /\ lastAction' = "reset"
  /\ UNCHANGED <<category, inFlight, reads>>

-----------------------------------------------------------------------------
(* The program *)

Init ==
  /\ category = UNDERGRADUATE
  /\ critiqueLevel = "Standard"
  /\ selectedCriteria = <<>>
  /\ customCriteria = InitialCustomCriteria
  /\ textInput = <<>>
  /\ file = NULL
  /\ reviewState = IdleState
  /\ inFlight = 0
  /\ reads = <<>>
  /\ lastAction = "init"

Next ==
  \/ \E c \in ReviewCategory : setCategory(c)
  \/ \E level \in CritiqueLevel : setCritiqueLevel(level)
  \/ \E c \in ToggleInputs : toggleCriterion(c)
  \/ toggleSelectAll
  \/ \E id \in {"1", "2"}, v \in NameInputs : handleCustomCriterionChange(id, "name", v)
  \/ \E id \in {"1", "2"}, v \in KeywordInputs : handleCustomCriterionChange(id, "keywords", v)
  \/ \E v \in TextInputs : setTextInput(v)
  \/ \E f \in FileInputs : processFile(f)
  \/ \E i \in 1..MaxReads : readerOnload(i)
  \/ \E i \in 1..MaxReads : readerOnerror(i)
  \/ clearFile
  \/ handleReview
  \/ \E r \in Responses : analysisCompletes(r)
  \/ reset

Spec == Init /\ [][Next]_vars

-----------------------------------------------------------------------------
(* Properties *)

HasContent == textInput # <<>> \/ file # NULL

HasCriterion ==
  \/ Len(selectedCriteria) > 0
  \/ \E i \in DOMAIN customCriteria : Trim(customCriteria[i].name) # <<>>

(* C1: a submit moves the review state to Loading and dispatches the       *)
(* external call if and only if there is content (text or file) and a      *)
(* criterion (selected or custom with non-blank name); otherwise nothing   *)
(* is dispatched and isLoading stays false.                                *)
C1_SubmitDispatchesIffValid ==
  [][lastAction' = "submit" =>
       /\ (HasContent /\ HasCriterion) <=>
            (reviewState'.isLoading /\ inFlight' = inFlight + 1)
       /\ ~(HasContent /\ HasCriterion) =>
            (inFlight' = inFlight /\ ~reviewState.isLoading /\ ~reviewState'.isLoading)]_vars

C1_Witness ==
  /\ lastAction = "submit"
  /\ reviewState.isLoading
  /\ inFlight = 1
  /\ textInput = <<>>
  /\ file # NULL
  /\ selectedCriteria = <<>>

(* C2: on a rejected submit the content check comes first: without text    *)
(* and file the error is the upload-or-paste message whatever the          *)
(* criteria are; with content but no criterion it is the select-a-         *)
(* criterion message.                                                      *)
C2_ContentCheckPrecedesCriteriaCheck ==
  [][lastAction' = "submit" =>
       /\ ~HasContent => reviewState'.error = Some(ERR_CONTENT)
       /\ (HasContent /\ ~HasCriterion) => reviewState'.error = Some(ERR_CRITERIA)]_vars

C2_Witness ==
  /\ lastAction = "submit"
  /\ reviewState.error = Some(ERR_CONTENT)
  /\ ~HasContent
  /\ ~HasCriterion

IsParseable(r) == r.kind = "text" /\ r.message # <<>> /\ JSONparse(r.message).ok

(* C3: when the call of the in-flight request returns parseable JSON, the  *)
(* parsed value is the current feedback, isLoading is false and error is   *)
(* null.                                                                   *)
C3_ParseableResponseSucceeds ==
  [][lastAction' = "response" => \A r \in Responses :
       (IsParseable(r) /\ analysisCompletes(r)) =>
          /\ reviewState'.feedback = JSONparse(r.message).value
          /\ ~reviewState'.isLoading
          /\ reviewState'.error = NULL]_vars

C3_Witness ==
  /\ lastAction = "response"
  /\ reviewState.feedback = JSONparse(FullJson).value
  /\ reviewState.feedback # NULL
  /\ ~reviewState.isLoading
  /\ reviewState.error = NULL

(* C4: when the call throws, returns no text or returns text that is not   *)
(* valid JSON, the state is Failed: isLoading false, feedback null, error  *)
(* a non-empty message.                                                    *)
C4_FailureShowsError ==
  [][lastAction' = "response" => \A r \in Responses :
       (~IsParseable(r) /\ analysisCompletes(r)) =>
          /\ ~reviewState'.isLoading
          /\ reviewState'.feedback = NULL
          /\ reviewState'.error # NULL
          /\ reviewState'.error[1] # <<>>]_vars

C4_Witness ==
  /\ lastAction = "response"
  /\ reviewState = [isLoading |-> FALSE, error |-> Some(SYNTAX_ERROR), feedback |-> NULL]

(* C5: a response that is valid JSON but lacks the reviews field is never  *)
(* accepted as the current feedback.                                       *)
C5_MissingReviewsNeverAccepted ==
  reviewState.feedback # NULL => "reviews" \in reviewState.feedback[1].fields

(* C6: at most one request is in flight: the loading flag is set exactly   *)
(* while a call is outstanding, and while it is set the submit action is   *)
(* disabled.                                                               *)
C6_AtMostOneInFlight ==
  /\ inFlight <= 1
  /\ reviewState.isLoading <=> inFlight = 1
  /\ reviewState.isLoading => ~ENABLED handleReview

C6_Witness ==
  /\ inFlight = 1
  /\ reviewState.isLoading
  /\ lastAction = "input"
  /\ HasContent
  /\ HasCriterion

(* C7: each accepted submission makes exactly one external call: a call is *)
(* started only by a submit, one at a time, and a response, failed or not, *)
(* ends its call without starting another.                                 *)
C7_OneCallPerSubmission ==
  [][/\ lastAction' = "response" => inFlight' = inFlight - 1
     /\ lastAction' = "submit" => inFlight' \in {inFlight, inFlight + 1}
     /\ inFlight' > inFlight => lastAction' = "submit"]_vars

C7_Witness ==
  /\ lastAction = "response"
  /\ reviewState.error # NULL
  /\ ~reviewState.isLoading
  /\ inFlight = 0

(* The Start New Review button is rendered only when no request is in      *)
(* flight, so no response can arrive after a reset.                        *)
NoRequestInFlightWhenResetShown == ENABLED reset => inFlight = 0

(* C9: after reset customCriteria is two blank entries, critiqueLevel is   *)
(* Standard, selectedCriteria and the text are empty, no file is attached  *)
(* and the review state is Idle.                                           *)
C9_ResetRestoresDefaults ==
  lastAction = "reset" =>
    /\ customCriteria = << [id |-> "1", name |-> <<>>, keywords |-> <<>>],
                           [id |-> "2", name |-> <<>>, keywords |-> <<>>] >>
    /\ critiqueLevel = "Standard"
    /\ selectedCriteria = <<>>
    /\ textInput = <<>>
    /\ file = NULL
    /\ reviewState = [isLoading |-> FALSE, error |-> NULL, feedback |-> NULL]

C9_Witness ==
  /\ lastAction = "reset"
  /\ critiqueLevel = "Standard"
  /\ category = JOURNAL
  /\ customCriteria = InitialCustomCriteria
  /\ reviewState = IdleState

(* C10 as stated: the reset action is available in every state.            *)
C10_ResetAvailableInEveryState == ENABLED reset

(* C10, amended: the reset action is available exactly in the states whose *)
(* feedback is non-null (the results view), and it leaves the review       *)
(* state Idle.                                                             *)
C10_ResetAvailableOnlyWithFeedback ==
  /\ ENABLED reset <=> reviewState.feedback # NULL
  /\ lastAction = "reset" => reviewState = IdleState

C10_Witness ==
  /\ ENABLED reset
  /\ reviewState.feedback # NULL
  /\ reviewState.error = NULL
  /\ ~reviewState.isLoading

-----------------------------------------------------------------------------
(* The keyword cap: edits of the custom criteria with texts around the cap *)

(* n words separated by single spaces *)
Words(n) == [i \in 1..(IF n = 0 THEN 0 ELSE 2 * n - 1) |-> IF i % 2 = 1 THEN "w" ELSE " "]

LongKeywordInputs ==
  { Words(0), Words(1), Words(MAX_WORD_COUNT - 1), Words(MAX_WORD_COUNT),
    Words(MAX_WORD_COUNT) \o <<" ">>, <<" ", " ">> \o Words(MAX_WORD_COUNT - 1),
    Words(MAX_WORD_COUNT + 1), Words(MAX_WORD_COUNT + 2) }

NextKeywords ==
  \/ \E id \in {"1", "2"}, v \in LongKeywordInputs : handleCustomCriterionChange(id, "keywords", v)
  \/ \E id \in {"1", "2"}, v \in NameInputs : handleCustomCriterionChange(id, "name", v)

SpecKeywords == Init /\ [][NextKeywords]_vars

(* C11: after every edit of a custom criterion the word count of its       *)
(* keywords is at most 200 unless the edit strictly lowered it, and an     *)
(* edit that would add words beyond 200 leaves the criteria unchanged.     *)
C11_KeywordCap ==
  [][\A i \in DOMAIN customCriteria :
       LET before == countWords(customCriteria[i].keywords)
           after == countWords(customCriteria'[i].keywords)
       IN  /\ after <= 200 \/ after < before
           /\ \A v \in LongKeywordInputs :
                ( /\ handleCustomCriterionChange(customCriteria[i].id, "keywords", v)
                  /\ countWords(v) > 200
                  /\ countWords(v) > before ) => customCriteria' = customCriteria]_vars

C11_Witness ==
  /\ countWords(customCriteria[1].keywords) = 200
  /\ Len(customCriteria[1].keywords) = 400
  /\ countWords(customCriteria[2].keywords) = 199
  /\ lastAction = "input"

-----------------------------------------------------------------------------
(* File selection: files around the size limit, with and without extension *)

ExactPdf == [name |-> <<"x", ".", "p", "d", "f">>, size |-> MAX_FILE_SIZE, type |-> "application/pdf", content |-> "JVBERi2="]
BigTxt == [name |-> <<"b", ".", "t", "x", "t">>, size |-> MAX_FILE_SIZE + 1, type |-> "text/plain", content |-> "Ymln"]
PaperDOCX == [name |-> <<"p", ".", "D", "O", "C", "X">>, size |-> 2048, type |-> "", content |-> "UEsDBA=="]
DocxDeclaredPdf == [name |-> <<"q", ".", "d", "o", "c", "x">>, size |-> 2048, type |-> "application/pdf", content |-> "UEsDBB=="]
TxtDeclaredPdf == [name |-> <<"t", ".", "t", "x", "t">>, size |-> 1024, type |-> "application/pdf", content |-> "dHh0"]
PdfDotTxt == [name |-> <<"a", ".", "p", "d", "f", ".", "t", "x", "t">>, size |-> 1024, type |-> "text/plain", content |-> "YXBk"]
NoExtension == [name |-> <<"r", "e", "a", "d", "m", "e">>, size |-> 1024, type |-> "", content |-> "cmVhZA=="]
DotlessPdf == [name |-> <<"p", "d", "f">>, size |-> 1024, type |-> "text/plain", content |-> "cGRm"]

WideFileInputs ==
  { ReportPdf, NotesTxt, BigPdf, ExactPdf, BigTxt, PaperDOCX, DocxDeclaredPdf,
    TxtDeclaredPdf, PdfDotTxt, NoExtension, DotlessPdf }

NextFiles ==
  \/ \E f \in WideFileInputs : processFile(f)
  \/ \E i \in 1..MaxReads : readerOnload(i)
  \/ \E i \in 1..MaxReads : readerOnerror(i)
  \/ clearFile
  \/ \E v \in TextInputs : setTextInput(v)
  \/ \E c \in ReviewCategory : setCategory(c)

SpecFiles == Init /\ [][NextFiles]_vars

(* The data of file f is attached or being read. *)
Holds(f) ==
  \/ file # NULL /\ file[1].data = f.content
  \/ \E i \in DOMAIN reads : reads[i].data = f.content

(* C12: a file of more than 4*1024*1024 bytes is rejected with the size    *)
(* error and never attached; a file of exactly 4*1024*1024 bytes passes    *)
(* the size check.                                                         *)
C12_SizeLimit ==
  [][\A f \in WideFileInputs :
       /\ f.size > 4 * 1024 * 1024 => ~Holds(f)'
       /\ processFile(f) =>
            /\ f.size > 4 * 1024 * 1024 =>
                 /\ reviewState'.error = Some(ERR_SIZE)
                 /\ reads' = reads
                 /\ file' = file
            /\ (f.size = 4 * 1024 * 1024 /\ f = ExactPdf) =>
                 /\ reads' = Append(reads, [name |-> f.name, mimeType |-> MIME_PDF, data |-> f.content])
                 /\ reviewState' = reviewState]_vars

C12_Witness ==
  /\ file # NULL
  /\ file[1].data = ExactPdf.content
  /\ reviewState.error = NULL

(* The extension of a name: what follows its last dot, none without a dot. *)
HasExtension(name, ext) ==
  /\ Len(name) > Len(ext)
  /\ name[Len(name) - Len(ext)] = "."
  /\ SubSeq(ToLowerCase(name), Len(name) - Len(ext) + 1, Len(name)) = ext

(* C13: a file within the size limit is accepted only if its extension is  *)
(* .pdf or .docx, case-insensitively, and is then tagged by extension,     *)
(* whatever its declared type; any other file, a name without extension    *)
(* included, is rejected with the unsupported-type error and not attached. *)
C13_ExtensionAllowList ==
  [][\A f \in WideFileInputs :
       (processFile(f) /\ f.size <= MAX_FILE_SIZE) =>
          IF HasExtension(f.name, <<"p", "d", "f">>)
            THEN reads' = Append(reads, [name |-> f.name, mimeType |-> "application/pdf", data |-> f.content])
          ELSE IF HasExtension(f.name, <<"d", "o", "c", "x">>)
            THEN reads' = Append(reads, [name |-> f.name,
                   mimeType |-> "application/vnd.openxmlformats-officedocument.wordprocessingml.document",
                   data |-> f.content])
          ELSE /\ reviewState'.error = Some(ERR_TYPE)
               /\ reads' = reads
               /\ file' = file]_vars

(* The same with the names that are a bare pdf or docx left out. *)
ExtensionAllowListWithDot ==
  [][\A f \in WideFileInputs \ {DotlessPdf} :
       (processFile(f) /\ f.size <= MAX_FILE_SIZE) =>
          IF HasExtension(f.name, <<"p", "d", "f">>)
            THEN reads' = Append(reads, [name |-> f.name, mimeType |-> "application/pdf", data |-> f.content])
          ELSE IF HasExtension(f.name, <<"d", "o", "c", "x">>)
            THEN reads' = Append(reads, [name |-> f.name,
                   mimeType |-> "application/vnd.openxmlformats-officedocument.wordprocessingml.document",
                   data |-> f.content])
          ELSE /\ reviewState'.error = Some(ERR_TYPE)
               /\ reads' = reads
               /\ file' = file]_vars

-----------------------------------------------------------------------------
(* Criteria selection: several built-in criteria and distinct custom names *)

CriterionInputs == { AVAILABLE_CRITERIA[1], AVAILABLE_CRITERIA[2], AVAILABLE_CRITERIA[3] }

CustomNameInputs == NameInputs \cup { <<"N">> }

NextCriteria ==
  \/ \E c \in CriterionInputs : toggleCriterion(c)
  \/ toggleSelectAll
  \/ \E id \in {"1", "2"}, v \in CustomNameInputs : handleCustomCriterionChange(id, "name", v)
  \/ \E v \in TextInputs : setTextInput(v)
  \/ handleReview
  \/ \E r \in Responses : analysisCompletes(r)
  \/ reset

SpecCriteria == Init /\ [][NextCriteria]_vars

(* The selected built-in criteria in the order of the catalog. *)
InCatalogOrder == SelectSeq(AVAILABLE_CRITERIA, LAMBDA c : Contains(selectedCriteria, c))

(* The custom names that are not blank, in entry order. *)
NonBlankCustomNames ==
  LET names == [i \in DOMAIN customCriteria |-> customCriteria[i].name]
  IN  SelectSeq(names, LAMBDA n : \E k \in DOMAIN n : n[k] # " ")

(* A request has just been dispatched from the current configuration. *)
JustDispatched == lastAction = "submit" /\ reviewState.isLoading

(* C14 as stated: the criteria list of a request is the selected built-in  *)
(* criteria in catalog order, whatever the toggle order, followed by the   *)
(* non-blank custom names in entry order.                                  *)
C14_CriteriaInCatalogOrder ==
  JustDispatched => RequestCriteria = InCatalogOrder \o NonBlankCustomNames

(* C14 amended: the criteria list of a request is the selected built-in    *)
(* criteria in the order they are held, then the non-blank custom names in *)
(* entry order; toggling a criterion on puts it last, toggling one off     *)
(* keeps the order of the others, Select All gives the catalog order.      *)
C14_CriteriaInSelectionOrder ==
  [][/\ JustDispatched' => RequestCriteria' = selectedCriteria' \o NonBlankCustomNames'
     /\ \A c \in CriterionInputs : toggleCriterion(c) =>
          IF \E k \in DOMAIN selectedCriteria : selectedCriteria[k] = c
            THEN /\ Len(selectedCriteria') = Len(selectedCriteria) - 1
                 /\ \A k \in DOMAIN selectedCriteria' :
                      selectedCriteria'[k] =
                        selectedCriteria[IF \E j \in 1..k : selectedCriteria[j] = c THEN k + 1 ELSE k]
            ELSE selectedCriteria' = selectedCriteria \o <<c>>
     /\ toggleSelectAll =>
          IF \A k \in DOMAIN AVAILABLE_CRITERIA :
               \E j \in DOMAIN selectedCriteria : selectedCriteria[j] = AVAILABLE_CRITERIA[k]
            THEN selectedCriteria' = <<>>
            ELSE selectedCriteria' = AVAILABLE_CRITERIA]_vars

C14_Witness ==
  /\ JustDispatched
  /\ selectedCriteria = <<AVAILABLE_CRITERIA[3], AVAILABLE_CRITERIA[1]>>
  /\ Len(RequestCriteria) = 4
  /\ RequestCriteria[1] = AVAILABLE_CRITERIA[3]
  /\ RequestCriteria[2] = AVAILABLE_CRITERIA[1]
  /\ RequestCriteria[3] = <<"N">>
  /\ RequestCriteria[4] = <<"M">>

-----------------------------------------------------------------------------
(* Failure classification: more failures of the external call *)

WideThrownMessages ==
  ThrownMessages \cup { <<"Rpc failed">>, <<"quota", "exceeded">> }

WideResponses == Responses \cup [kind : {"throw"}, message : WideThrownMessages]

NextService ==
  \/ \E v \in TextInputs : setTextInput(v)
  \/ \E c \in ToggleInputs : toggleCriterion(c)
  \/ handleReview
  \/ \E r \in WideResponses : analysisCompletes(r)
  \/ \E level \in CritiqueLevel : setCritiqueLevel(level)
  \/ reset

SpecService == Init /\ [][NextService]_vars

HasMarker(message) ==
  \E k \in DOMAIN message : message[k] = "Rpc failed" \/ message[k] = "xhr error"

(* C15: a failure whose message contains "Rpc failed" or "xhr error" shows *)
(* the fixed connection message; a missing or empty response text shows    *)
(* "No response generated from the model."; every other failure with a     *)
(* non-empty message shows that message verbatim in the error field.       *)
C15_ErrorClassified ==
  [][lastAction' = "response" =>
       \A r \in WideResponses :
         (inFlight > 0 /\ analysisCompletes(r)) =>
           /\ (r.kind = "throw" /\ HasMarker(r.message)) =>
                reviewState'.error = Some(ERR_CONNECTION)
           /\ (r.kind = "text" /\ r.message = <<>>) =>
                reviewState'.error = Some(<<"No response generated from the model.">>)
           /\ (r.kind = "throw" /\ r.message # <<>> /\ ~HasMarker(r.message)) =>
                reviewState'.error = Some(r.message)
           /\ (r.kind = "text" /\ r.message = TruncatedJson) =>
                reviewState'.error = Some(SYNTAX_ERROR)
           /\ reviewState'.error # NULL =>
                /\ ~reviewState'.isLoading
                /\ reviewState'.feedback = NULL]_vars

C15_Witness ==
  /\ lastAction = "response"
  /\ reviewState.error = Some(ERR_CONNECTION)
  /\ ~reviewState.isLoading

-----------------------------------------------------------------------------
(* analyzeDocument called on its own, with arguments of every shape *)

AnalyzeFileInputs ==
  { NULL,
    Some([name |-> ReportPdf.name, mimeType |-> MIME_PDF, data |-> ReportPdf.content]),
    Some([name |-> PaperDOCX.name, mimeType |-> MIME_DOCX, data |-> PaperDOCX.content]) }

AnalyzeCriteriaInputs == { <<>>, <<AVAILABLE_CRITERIA[1]>>, AVAILABLE_CRITERIA }

InitAnalyze ==
  /\ category \in ReviewCategory
  /\ critiqueLevel \in CritiqueLevel
  /\ selectedCriteria \in AnalyzeCriteriaInputs
  /\ customCriteria = InitialCustomCriteria
  /\ textInput \in TextInputs
  /\ file \in AnalyzeFileInputs
  /\ reviewState = IdleState
  /\ inFlight = 0
  /\ reads = <<>>
  /\ lastAction = "init"

(* A call analyzeDocument(category, selectedCriteria, customCriteria,      *)
(* critiqueLevel, textInput, file) up to its first await, with the caller  *)
(* recording the outcome as handleReview does.                             *)
analyzeDocument ==
  /\ lastAction = "init"
  /\ IF Len(Parts(textInput, file)) = 0
       THEN /\ reviewState' = [isLoading |-> FALSE, error |-> Some(ERR_NO_PARTS),
                               feedback |-> NULL]
            /\ UNCHANGED inFlight
       ELSE /\ inFlight < MaxInFlight
            /\ reviewState' = [isLoading |-> TRUE, error |-> NULL, feedback |-> NULL]
            /\ inFlight' = inFlight + 1
  /\ lastAction' = "submit"
  /\ UNCHANGED <<config, file, reads>>

NextAnalyze ==
  \/ analyzeDocument
  \/ \E r \in Responses : analysisCompletes(r)

SpecAnalyze == InitAnalyze /\ [][NextAnalyze]_vars

-----------------------------------------------------------------------------
(* The response schema and the responses it admits *)

(* analyzeDocument: responseSchema. *)
responseSchema ==
  [type |-> "OBJECT",
   properties |->
     [summary |-> [type |-> "STRING"],
      overallScore |-> [type |-> "INTEGER"],
      reviews |->
        [type |-> "ARRAY",
         items |->
           [type |-> "OBJECT",
            properties |->
              [criterion |-> [type |-> "STRING"],
               score |-> [type |-> "STRING", enum |-> {"Excellent", "Good", "Fair", "Poor"}],
               visualBar |-> [type |-> "STRING"],
               feedbackPoints |->
                 [type |-> "ARRAY",
                  items |->
                    [type |-> "OBJECT",
                     properties |->
                       [point |-> [type |-> "STRING"],
                        highlight |-> [type |-> "STRING"],
                        general_feedback |-> [type |-> "BOOLEAN"]],
                     required |-> {"point"}]]],
            required |-> {"criterion", "score", "visualBar", "feedbackPoints"}]]],
   required |-> {"summary", "overallScore", "reviews"}]

(* The same schema with the item count of feedbackPoints fixed at three. *)
responseSchemaWithItemCount ==
  [responseSchema EXCEPT
     !.properties.reviews.items.properties.feedbackPoints =
        [type |-> "ARRAY",
         items |-> responseSchema.properties.reviews.items.properties.feedbackPoints.items,
         minItems |-> 3,
         maxItems |-> 3]]

(* JSON values, scalars by their JSON text *)
JStr(v) == [t |-> "string", v |-> v]
JInt(v) == [t |-> "integer", v |-> v]
JBool(v) == [t |-> "boolean", v |-> v]
JArr(items) == [t |-> "array", items |-> items]
JObj(fields) == [t |-> "object", fields |-> fields]

(* What the keywords of a schema require of a value: type, enum, items,    *)
(* minItems, maxItems, properties and required.                            *)
RECURSIVE Validates(_, _)
Validates(schema, value) ==
  CASE schema.type = "STRING" ->
         /\ value.t = "string"
         /\ "enum" \in DOMAIN schema => value.v \in schema.enum
    [] schema.type = "INTEGER" -> value.t = "integer"
    [] schema.type = "BOOLEAN" -> value.t = "boolean"
    [] schema.type = "ARRAY" ->
         /\ value.t = "array"
         /\ "minItems" \in DOMAIN schema => Len(value.items) >= schema.minItems
         /\ "maxItems" \in DOMAIN schema => Len(value.items) <= schema.maxItems
         /\ \A i \in DOMAIN value.items : Validates(schema.items, value.items[i])
    [] schema.type = "OBJECT" ->
         /\ value.t = "object"
         /\ "required" \in DOMAIN schema =>
              \A k \in schema.required : k \in DOMAIN value.fields
         /\ \A k \in DOMAIN value.fields \cap DOMAIN schema.properties :
              Validates(schema.properties[k], value.fields[k])
    [] OTHER -> FALSE

FeedbackPoint(k) ==
  IF k % 2 = 1
    THEN JObj([point |-> JStr("p [Page 1]"), highlight |-> JStr("h")])
    ELSE JObj([point |-> JStr("q [Section: Intro]"), general_feedback |-> JBool("true")])

(* A review of one criterion with n feedback points. *)
ReviewWith(criterion, n) ==
  JObj([criterion |-> JStr(criterion), score |-> JStr("Good"), visualBar |-> JStr("####-"),
       feedbackPoints |-> JArr([k \in 1..n |-> FeedbackPoint(k)])])

(* A response with one review per entry of counts. *)
ResponseWith(counts) ==
  JObj([summary |-> JStr("s"), overallScore |-> JInt("70"),
       reviews |-> JArr([i \in DOMAIN counts |-> ReviewWith(AVAILABLE_CRITERIA[i], counts[i])])])

PointCounts == { <<3>>, <<2>>, <<4>>, <<3, 3>>, <<3, 2>>, <<4, 3>>, <<0>> }

SyntheticResponses ==
  { ResponseWith(counts) : counts \in PointCounts }
  \cup { JObj([summary |-> JStr("s"), overallScore |-> JInt("70")]),
         JObj([summary |-> JStr("s"), overallScore |-> JStr("70"),
              reviews |-> JArr(<<ReviewWith(AVAILABLE_CRITERIA[1], 3)>>)]),
         JObj([summary |-> JStr("s"), overallScore |-> JInt("70"),
              reviews |-> JArr(<<JObj([criterion |-> JStr("Clarity"), score |-> JStr("Superb"),
                                     visualBar |-> JStr("#####"),
                                     feedbackPoints |-> JArr(<<>>)])>>)]) }

(* generateContent resolves with a response that conforms to the schema    *)
(* it was given; JSON.parse returns it and handleReview stores it.         *)
conformingResponse(v) ==
  /\ inFlight > 0
  /\ Validates(responseSchema, v)
  /\ reviewState' = [isLoading |-> FALSE, error |-> NULL, feedback |-> Some(v)]
  /\ inFlight' = inFlight - 1
  /\ lastAction' = "response"
  /\ UNCHANGED <<config, file, reads>>

NextSchema ==
  \/ \E v \in TextInputs : setTextInput(v)
  \/ \E c \in ToggleInputs : toggleCriterion(c)
  \/ \E level \in CritiqueLevel : setCritiqueLevel(level)
  \/ handleReview
  \/ \E v \in SyntheticResponses : conformingResponse(v)
  \/ reset

SpecSchema == Init /\ [][NextSchema]_vars

ReviewsOf(v) == v.fields.reviews.items

(* C17: the response schema accepts a response in which every criterion    *)
(* has exactly 3 feedbackPoints and rejects one in which some criterion    *)
(* has 2 or 4: a response the schema admits has 3 points per criterion.    *)
C17_SchemaFixesThreePoints ==
  /\ \A counts \in PointCounts :
       (inFlight > 0 /\ \A i \in DOMAIN counts : counts[i] = 3) =>
         ENABLED conformingResponse(ResponseWith(counts))
  /\ reviewState.feedback # NULL =>
       \A i \in DOMAIN ReviewsOf(reviewState.feedback[1]) :
         Len(ReviewsOf(reviewState.feedback[1])[i].fields.feedbackPoints.items) \notin {2, 4}

(* With the item count in the schema, the admitted responses have exactly  *)
(* three points per criterion.                                             *)
ItemCountWouldFixThreePoints ==
  \A v \in SyntheticResponses :
    Validates(responseSchemaWithItemCount, v) <=>
      \E counts \in PointCounts :
        /\ v = ResponseWith(counts)
        /\ \A i \in DOMAIN counts : counts[i] = 3

-----------------------------------------------------------------------------
(* Input errors *)

InputErrors == { ERR_SIZE, ERR_TYPE, ERR_READ, ERR_CONTENT, ERR_CRITERIA }

InputErrorShown == \E e \in InputErrors : reviewState.error = Some(e)

(* A user action that succeeds: a file is attached, the text or the        *)
(* criteria are edited and the edit is taken, or a submission is accepted. *)
AcceptedAction ==
  \/ \E i \in 1..MaxReads : readerOnload(i)
  \/ \E v \in TextInputs : setTextInput(v) /\ textInput' # textInput
  \/ \E c \in ToggleInputs : toggleCriterion(c)
  \/ toggleSelectAll
  \/ \E id \in {"1", "2"}, v \in NameInputs :
       handleCustomCriterionChange(id, "name", v) /\ customCriteria' # customCriteria
  \/ \E id \in {"1", "2"}, v \in KeywordInputs :
       handleCustomCriterionChange(id, "keywords", v) /\ customCriteria' # customCriteria
  \/ handleReview /\ inFlight' = inFlight + 1

(* C18: an input error shown in the error field is cleared by the next     *)
(* user action that succeeds (accepted attachment, accepted edit of text   *)
(* or criteria, accepted submission).                                      *)
C18_InputErrorClearedByAcceptedAction ==
  [][(InputErrorShown /\ AcceptedAction) => reviewState'.error = NULL]_vars

(* The error is cleared by an attached file and by an accepted submission. *)
InputErrorClearedByAttachmentOrSubmission ==
  [][( /\ InputErrorShown
       /\ \/ \E i \in 1..MaxReads : readerOnload(i)
          \/ handleReview /\ inFlight' = inFlight + 1 ) => reviewState'.error = NULL]_vars

-----------------------------------------------------------------------------
(* Recovery from errors: the external call always completes *)

NextResubmit ==
  \/ \E v \in TextInputs : setTextInput(v)
  \/ \E c \in ToggleInputs : toggleCriterion(c)
  \/ \E f \in FileInputs : processFile(f)
  \/ \E i \in 1..MaxReads : readerOnload(i)
  \/ \E i \in 1..MaxReads : readerOnerror(i)
  \/ clearFile
  \/ handleReview
  \/ \E r \in Responses : analysisCompletes(r)
  \/ reset

(* generateContent resolves or rejects: a pending call is answered. *)
SpecResubmit ==
  /\ Init
  /\ [][NextResubmit]_vars
  /\ WF_vars(\E r \in Responses : analysisCompletes(r))

Loading == reviewState.isLoading

Failed == ~reviewState.isLoading /\ reviewState.error # NULL /\ reviewState.feedback = NULL

(* Every Loading state is followed by a state that is not loading. *)
LoadingEnds == Loading ~> ~Loading

(* In a Failed state, an input error with neither a pending request nor    *)
(* a feedback included, the submit button is enabled.                      *)
SubmitEnabledWhenFailed == Failed => ENABLED handleReview

(* C19: no error is fatal: every Loading state is eventually followed by a *)
(* state with isLoading = false, and in every Failed state and every state *)
(* with an input error a new submit is enabled.                            *)
C19_NoErrorIsFatal ==
  /\ Loading ~> ~Loading
  /\ []((Failed \/ InputErrorShown) => ENABLED handleReview)

-----------------------------------------------------------------------------
(* Personas *)

(* analyzeDocument: the heading and the tone line of personaInstruction. *)
personaInstruction(cat, level) ==
  IF cat = UNDERGRADUATE
    THEN IF level = "Supportive"
           THEN [path |-> "PATH A (UNDERGRADUATE)", title |-> <<"THE", "MENTOR">>,
                 level |-> "Supportive", tone |-> "Encouraging, warm, and focused on learning."]
         ELSE IF level = "Standard"
           THEN [path |-> "PATH A (UNDERGRADUATE)", title |-> <<"THE", "GRADER">>,
                 level |-> "Standard", tone |-> "Professional, objective, and grade-focused."]
         ELSE [path |-> "PATH A (UNDERGRADUATE)", title |-> <<"THE", "STRICT", "EXAMINER">>,
               level |-> "Ruthless", tone |-> "Direct, dry, and unsparingly critical."]
    ELSE IF level = "Supportive"
           THEN [path |-> "PATH B (JOURNAL ARTICLE)", title |-> <<"THE", "CONSTRUCTIVE", "PEER">>,
                 level |-> "Supportive", tone |-> "Collaborative and helpful."]
         ELSE IF level = "Standard"
           THEN [path |-> "PATH B (JOURNAL ARTICLE)", title |-> <<"THE", "PEER", "REVIEWER">>,
                 level |-> "Standard", tone |-> "Formal, rigorous, and demanding of standard quality."]
         ELSE [path |-> "PATH B (JOURNAL ARTICLE)", title |-> <<"THE", "GATEKEEPER">>,
               level |-> "Ruthless", tone |-> "Skeptical, abrasive, and focused on rejection."]

(* Variant: the selector shows the undergraduate personas for both categories. *)
getCritiqueLevelInfo_IgnoresCategory(level) ==
  IF level = "Supportive"
    THEN [title |-> <<"The", "Mentor">>, desc |-> "Encouraging & Warm"]
  ELSE IF level = "Standard"
    THEN [title |-> <<"The", "Grader">>, desc |-> "Objective & Grade-Focused"]
  ELSE [title |-> <<"The", "Strict", "Examiner">>, desc |-> "Dry & Unsparing"]

(* App: the title and description the level selector shows for a level. *)
getCritiqueLevelInfo(level) ==
  IF category = UNDERGRADUATE
    THEN IF level = "Supportive"
           THEN [title |-> <<"The", "Mentor">>, desc |-> "Encouraging & Warm"]
         ELSE IF level = "Standard"
           THEN [title |-> <<"The", "Grader">>, desc |-> "Objective & Grade-Focused"]
         ELSE [title |-> <<"The", "Strict", "Examiner">>, desc |-> "Dry & Unsparing"]
    ELSE IF level = "Supportive"
           THEN [title |-> <<"Constructive", "Peer">>, desc |-> "Collaborative & Helpful"]
         ELSE IF level = "Standard"
           THEN [title |-> <<"Peer", "Reviewer">>, desc |-> "Formal & Rigorous"]
         ELSE [title |-> <<"The", "Gatekeeper">>, desc |-> "Skeptical & Abrasive"]

(* A word in lower case. *)
LowerWord(w) ==
  CASE w \in {"THE", "The"} -> "the"
    [] w \in {"MENTOR", "Mentor"} -> "mentor"
    [] w \in {"GRADER", "Grader"} -> "grader"
    [] w \in {"STRICT", "Strict"} -> "strict"
    [] w \in {"EXAMINER", "Examiner"} -> "examiner"
    [] w \in {"CONSTRUCTIVE", "Constructive"} -> "constructive"
    [] w \in {"PEER", "Peer"} -> "peer"
    [] w \in {"REVIEWER", "Reviewer"} -> "reviewer"
    [] w \in {"GATEKEEPER", "Gatekeeper"} -> "gatekeeper"
    [] OTHER -> w

(* The persona a title names: its words in lower case, without the article. *)
PersonaOf(title) ==
  LET words == [i \in DOMAIN title |-> LowerWord(title[i])]
  IN  IF Len(words) > 0 /\ words[1] = "the" THEN Tail(words) ELSE words

ExpectedPersona(cat, level) ==
  IF cat = "Undergraduate Essay"
    THEN CASE level = "Supportive" -> <<"The", "Mentor">>
           [] level = "Standard" -> <<"The", "Grader">>
           [] level = "Ruthless" -> <<"The", "Strict", "Examiner">>
    ELSE CASE level = "Supportive" -> <<"The", "Constructive", "Peer">>
           [] level = "Standard" -> <<"The", "Peer", "Reviewer">>
           [] level = "Ruthless" -> <<"The", "Gatekeeper">>

(* C20: the persona of the instruction for (category, critiqueLevel) is    *)
(* the one of the fixed 2x3 table, each pair has its own tone directive,   *)
(* and the level selector shows the same persona for the pair.             *)
C20_PersonaLookup ==
  /\ PersonaOf(personaInstruction(category, critiqueLevel).title)
       = PersonaOf(ExpectedPersona(category, critiqueLevel))
  /\ personaInstruction(category, critiqueLevel).level = critiqueLevel
  /\ \A level \in CritiqueLevel :
       PersonaOf(getCritiqueLevelInfo(level).title)
         = PersonaOf(personaInstruction(category, level).title)
  /\ \A c \in ReviewCategory, level \in CritiqueLevel :
       (c # category \/ level # critiqueLevel) =>
         /\ personaInstruction(c, level).tone # personaInstruction(category, critiqueLevel).tone
         /\ PersonaOf(personaInstruction(c, level).title)
              # PersonaOf(personaInstruction(category, critiqueLevel).title)

C20_Witness ==
  /\ lastAction = "submit"
  /\ inFlight = 1
  /\ category = JOURNAL
  /\ critiqueLevel = "Supportive"
  /\ getCritiqueLevelInfo(critiqueLevel).title = <<"Constructive", "Peer">>
  /\ personaInstruction(category, critiqueLevel).title = <<"THE", "CONSTRUCTIVE", "PEER">>

-----------------------------------------------------------------------------
(* The shapes of the review state, and file reads that outlive a reset *)

(* C21: in every reachable state (isLoading, error, feedback) is Idle      *)
(* (false, null, null), Loading (true, null, null), Succeeded (false,      *)
(* null, non-null) or Failed (false, non-null, null).                      *)
C21_FourShapes ==
  LET loading == reviewState.isLoading
      hasError == reviewState.error # NULL
      hasFeedback == reviewState.feedback # NULL
  IN  \/ ~loading /\ ~hasError /\ ~hasFeedback
      \/ loading /\ ~hasError /\ ~hasFeedback
      \/ ~loading /\ ~hasError /\ hasFeedback
      \/ ~loading /\ hasError /\ ~hasFeedback

(* handleReview, a response and reset write one of the four shapes. *)
ReviewStepsWriteShapes ==
  [][lastAction' \in {"submit", "response", "reset"} =>
       \/ C21_FourShapes'
       \/ reviewState' = reviewState]_vars

(* While no request is pending and no feedback is stored, the state has    *)
(* one of the four shapes.                                                 *)
ShapesWithoutPendingRequest ==
  (~reviewState.isLoading /\ reviewState.feedback = NULL) => C21_FourShapes

(* C22: after reset no file is attached until the user selects a new file: *)
(* a file read started before the reset and completing after it neither    *)
(* attaches its file nor changes the error field.                          *)
C22_ResetDropsPendingReads ==
  [][( /\ lastAction = "reset"
       /\ \E i \in 1..MaxReads : readerOnload(i) \/ readerOnerror(i) ) =>
         /\ file' = NULL
         /\ reviewState'.error = reviewState.error]_vars

=============================================================================
